---- MODULE Spec2Model ----
(***************************************************************************)
(* Model of the Argon2id password hashing API (src/src/index.ts): the      *)
(* option validator, the /hash, /verify, /batch-hash and /config handlers  *)
(* and the error paths around the imported wasm hashing engine.            *)
(***************************************************************************)
EXTENDS Integers, Sequences, FiniteSets, TLC

VARIABLES DEFAULT_OPTIONS, request, options, validatedOptions, response, trace

vars == <<DEFAULT_OPTIONS, request, options, validatedOptions, response, trace>>

(***************************************************************************)
(* Bounds of the model.                                                    *)
(***************************************************************************)
\* longest passwords array that is enumerated item by item
MaxLen == 3

(***************************************************************************)
(* JavaScript values, as they arrive in a parsed JSON body.  Every value   *)
(* is a record of the same shape: t is the type tag, n the payload of a     *)
(* number or boolean, s of a string, a the items of an array, o the        *)
(* properties of an object.  A number that is not an integer has the tag   *)
(* "frac" and stands for n + 0.5.                                          *)
(***************************************************************************)
NoProps == [none |-> 0]
Val(t, n, s, a, o) == [t |-> t, n |-> n, s |-> s, a |-> a, o |-> o]

Undef == Val("undefined", 0, "", <<>>, NoProps)
Null == Val("null", 0, "", <<>>, NoProps)
Num(n) == Val("int", n, "", <<>>, NoProps)
Frac(n) == Val("frac", n, "", <<>>, NoProps)
Str(s) == Val("string", 0, s, <<>>, NoProps)
Bool(b) == Val("boolean", IF b THEN 1 ELSE 0, "", <<>>, NoProps)
Arr(items) == Val("array", 0, "", items, NoProps)
Obj(props) == Val("object", 0, "", <<>>, props)

\* !x
Falsy(x) ==
    \/ x.t \in {"undefined", "null"}
    \/ x.t = "int" /\ x.n = 0
    \/ x.t = "string" /\ x.s = ""
    \/ x.t = "boolean" /\ x.n = 0

\* typeof x
TypeOf(x) ==
    CASE x.t \in {"int", "frac"} -> "number"
      [] x.t \in {"null", "array", "object"} -> "object"
      [] OTHER -> x.t

\* Number.isInteger(x)
IsInteger(x) == x.t = "int"

\* x.name, for an x that is neither null nor undefined
Get(x, name) ==
    IF x.t = "object" /\ name \in DOMAIN x.o THEN x.o[name] ELSE Undef

\* a & b on non-negative 32-bit integers
RECURSIVE BitAnd(_, _)
BitAnd(a, b) ==
    IF a = 0 \/ b = 0
    THEN 0
    ELSE (IF a % 2 = 1 /\ b % 2 = 1 THEN 1 ELSE 0) + 2 * BitAnd(a \div 2, b \div 2)

(***************************************************************************)
(* Constants and configuration.                                            *)
(***************************************************************************)
DefaultOptionsLiteral ==
    [time_cost |-> 2, memory_cost |-> 19456, parallelism |-> 1, salt_length |-> 16]

Fields == {"time_cost", "memory_cost", "parallelism", "salt_length"}

(***************************************************************************)
(* Validation functions.                                                   *)
(***************************************************************************)
\* validatePassword returns true or throws
PasswordError == Val("Error", 0, "Password must be a non-empty string", <<>>, NoProps)

\* a variant that forgets the emptiness test: typeof password !== 'string'
validatePasswordThrowsTypeOnly(password) == TypeOf(password) # "string"

validatePasswordThrows(password) ==
    Falsy(password) \/ TypeOf(password) # "string"

timeCostAccepted(x) ==
    IsInteger(x) /\ x # Undef /\ x.n >= 1 /\ x.n <= 10

memoryCostAccepted(x) ==
    /\ IsInteger(x)
    /\ x # Undef
    /\ x.n >= 8192
    /\ x.n <= 1048576
    /\ BitAnd(x.n, x.n - 1) = 0

\* a variant with the upper bound of time_cost copied over
parallelismAcceptedUpTo10(x) ==
    IsInteger(x) /\ x # Undef /\ x.n >= 1 /\ x.n <= 10

parallelismAccepted(x) ==
    IsInteger(x) /\ x # Undef /\ x.n >= 1 /\ x.n <= 16

saltLengthAccepted(x) ==
    IsInteger(x) /\ x # Undef /\ x.n >= 8 /\ x.n <= 32

FieldAccepted(f, x) ==
    CASE f = "time_cost" -> timeCostAccepted(x)
      [] f = "memory_cost" -> memoryCostAccepted(x)
      [] f = "parallelism" -> parallelismAccepted(x)
      [] f = "salt_length" -> saltLengthAccepted(x)

validateHashOptions(opts) ==
    IF Falsy(opts) \/ TypeOf(opts) # "object"
    THEN DEFAULT_OPTIONS
    ELSE [f \in Fields |->
            IF FieldAccepted(f, Get(opts, f)) THEN Get(opts, f).n ELSE DEFAULT_OPTIONS[f]]

(***************************************************************************)
(* The imported hashing engine (wasm): hash(password, options) and         *)
(* verify(hash, password).  A call either returns or throws a value; which *)
(* of the two is the engine's choice, given to the call as `behaviour`.    *)
(***************************************************************************)
Error(msg) == Val("Error", 0, msg, <<>>, NoProps)
Return(x) == [c |-> "return", v |-> x]
Throw(e) == [c |-> "throw", v |-> e]

\* the tagged hash string the engine returns for (password, options)
HashString(password, opts) ==
    Val("string", 0, "$argon2id$v=19$", <<>>,
        [m |-> opts.memory_cost, t |-> opts.time_cost, p |-> opts.parallelism,
         salt |-> opts.salt_length, password |-> password.s])

hash(password, opts, behaviour) ==
    IF behaviour.c = "return" THEN Return(HashString(password, opts)) ELSE behaviour

verify(passwordHash, password, behaviour) == behaviour

(***************************************************************************)
(* error.message in a catch clause: reading a property of null or          *)
(* undefined throws a TypeError, any other value without the property      *)
(* reads as undefined.                                                     *)
(***************************************************************************)
MessageThrows(e) == e.t \in {"undefined", "null"}

MessageTypeError(e) ==
    Error(IF e.t = "null"
          THEN "Cannot read properties of null (reading 'message')"
          ELSE "Cannot read properties of undefined (reading 'message')")

Message(e) == IF e.t = "Error" THEN Str(e.s) ELSE Undef

\* a || b
Or(a, b) == IF Falsy(a) THEN b ELSE a

(***************************************************************************)
(* Responses.                                                              *)
(***************************************************************************)
NoRequest == [route |-> "none", body |-> Undef]
NoResponse == [status |-> 0, body |-> [none |-> TRUE]]
Json(status, body) == [status |-> status, body |-> body]

\* app.onError: an error no handler caught
onError(err) ==
    Json(500, [error |-> Str("Internal server error"), message |-> Message(err)])

\* the catch clause shared by the three POST handlers
catchBadRequest(error) ==
    IF MessageThrows(error)
    THEN onError(MessageTypeError(error))
    ELSE Json(400, [error |-> Or(Message(error), Str("Bad request"))])

\* await c.req.json() followed by destructuring the body
Unparsable == Val("unparsable", 0, "", <<>>, NoProps)

bodyThrows(body) == body.t \in {"unparsable", "null"}

bodyError(body) ==
    IF body.t = "unparsable"
    THEN Error("Unexpected token in JSON")
    ELSE Error("Cannot destructure property of null")

\* one step of a handler, as the log of the request keeps it: the call, the
\* item index it belongs to, its arguments and how it completed
Event(ev, index, args, result) ==
    [ev |-> ev, index |-> index, args |-> args, result |-> result]

\* validatePassword(password)
validatePassword(password) ==
    IF validatePasswordThrows(password) THEN Throw(PasswordError) ELSE Return(Bool(TRUE))

\* a variant that adds at the front: array.unshift(x)
unshift(array, x) == <<x>> \o array

\* array.push(x)
push(array, x) == Append(array, x)

Outcome(resp, opts, vopts, tr) ==
    [response |-> resp, options |-> opts, validatedOptions |-> vopts, trace |-> tr]

NoOptions == [none |-> TRUE]

(***************************************************************************)
(* POST /hash                                                              *)
(***************************************************************************)
hashHandler(body, behaviour) ==
    IF bodyThrows(body)
    THEN Outcome(catchBadRequest(bodyError(body)), Undef, NoOptions, <<>>)
    ELSE
      LET password == Get(body, "password")
          opts == Get(body, "options")
          checked == validatePassword(password)
          t1 == <<Event("validatePassword", 0, <<password>>, checked)>>
      IN  IF checked.c = "throw"
          THEN Outcome(catchBadRequest(checked.v), opts, NoOptions, t1)
          ELSE
            LET vopts == validateHashOptions(opts)
                t2 == Append(t1, Event("validateHashOptions", 0, <<opts>>, Return(Undef)))
                hashedPassword == hash(password, vopts, behaviour)
                t3 == Append(t2, Event("hash", 0, <<password, vopts>>, hashedPassword))
            IN  IF hashedPassword.c = "return"
                THEN Outcome(Json(200, [hash |-> hashedPassword.v]), opts, vopts, t3)
                ELSE Outcome(catchBadRequest(hashedPassword.v), opts, vopts, t3)

(***************************************************************************)
(* POST /verify                                                            *)
(***************************************************************************)
\* a variant that forgets the emptiness test: typeof passwordHash !== 'string'
hashRejectedTypeOnly(passwordHash) == TypeOf(passwordHash) # "string"

\* !passwordHash || typeof passwordHash !== 'string'
hashRejected(passwordHash) ==
    Falsy(passwordHash) \/ TypeOf(passwordHash) # "string"

verifyHandler(body, behaviour) ==
    IF bodyThrows(body)
    THEN Outcome(catchBadRequest(bodyError(body)), Undef, NoOptions, <<>>)
    ELSE
      LET passwordHash == Get(body, "hash")
          password == Get(body, "password")
      IN  IF hashRejected(passwordHash)
          THEN Outcome(Json(400, [error |-> Str("Hash must be a non-empty string")]),
                       Undef, NoOptions, <<>>)
          ELSE
            LET checked == validatePassword(password)
                t1 == <<Event("validatePassword", 0, <<password>>, checked)>>
            IN  IF checked.c = "throw"
                THEN Outcome(catchBadRequest(checked.v), Undef, NoOptions, t1)
                ELSE
                  LET isValid == verify(passwordHash, password, behaviour)
                      t2 == Append(t1, Event("verify", 0, <<passwordHash, password>>,
                                             isValid))
                  IN  IF isValid.c = "return"
                      THEN Outcome(Json(200, [isValid |-> isValid.v]), Undef, NoOptions, t2)
                      ELSE Outcome(catchBadRequest(isValid.v), Undef, NoOptions, t2)

(***************************************************************************)
(* POST /batch-hash                                                        *)
(***************************************************************************)
\* a variant of the callback that hashes with DEFAULT_OPTIONS instead of the
\* validated options of the batch
processItemDefaultOptions(pwd, index, vopts, behaviour) ==
    LET checked == validatePassword(pwd)
        e1 == Event("validatePassword", index, <<pwd>>, checked)
    IN  IF checked.c = "throw"
        THEN [to |-> "errors", v |-> [index |-> index, message |-> Message(checked.v)],
              events |-> <<e1>>]
        ELSE
          LET h == hash(pwd, DEFAULT_OPTIONS, behaviour)
              e2 == Event("hash", index, <<pwd, DEFAULT_OPTIONS>>, h)
          IN  IF h.c = "return"
              THEN [to |-> "hashes", v |-> h.v, events |-> <<e1, e2>>]
              ELSE IF MessageThrows(h.v)
              THEN [to |-> "throw", v |-> MessageTypeError(h.v), events |-> <<e1, e2>>]
              ELSE [to |-> "errors", v |-> [index |-> index, message |-> Message(h.v)],
                    events |-> <<e1, e2>>]

\* the callback of passwords.forEach for the item at JavaScript index `index`:
\* what it pushes and where, or the error that leaves it (its catch clause
\* reads error.message), and its steps
processItem(pwd, index, vopts, behaviour) ==
    LET checked == validatePassword(pwd)
        e1 == Event("validatePassword", index, <<pwd>>, checked)
    IN  IF checked.c = "throw"
        THEN [to |-> "errors", v |-> [index |-> index, message |-> Message(checked.v)],
              events |-> <<e1>>]
        ELSE
          LET h == hash(pwd, vopts, behaviour)
              e2 == Event("hash", index, <<pwd, vopts>>, h)
          IN  IF h.c = "return"
              THEN [to |-> "hashes", v |-> h.v, events |-> <<e1, e2>>]
              ELSE IF MessageThrows(h.v)
              THEN [to |-> "throw", v |-> MessageTypeError(h.v), events |-> <<e1, e2>>]
              ELSE [to |-> "errors", v |-> [index |-> index, message |-> Message(h.v)],
                    events |-> <<e1, e2>>]

\* passwords.forEach(callback) over the positions lo..hi (1-based, the
\* JavaScript index is the position minus 1), left to right; acc holds
\* results.hashes, results.errors and the log so far, or the error that left
\* the loop.  The range is walked by halves, left half first: the same order
\* as the loop, evaluated without nesting one call per item.
RECURSIVE forEach(_, _, _, _, _, _)
forEach(passwords, lo, hi, vopts, engine, acc) ==
    IF acc.c = "throw" \/ lo > hi
    THEN acc
    ELSE IF lo = hi
    THEN
      LET item == processItem(passwords[lo], lo - 1, vopts, engine[lo])
          log == acc.trace \o item.events
      IN  CASE item.to = "hashes" ->
                 [acc EXCEPT !.hashes = push(acc.hashes, item.v), !.trace = log]
            [] item.to = "errors" ->
                 [acc EXCEPT !.errors = push(acc.errors, item.v), !.trace = log]
            [] item.to = "throw" ->
                 [acc EXCEPT !.c = "throw", !.v = item.v, !.trace = log]
    ELSE
      LET mid == (lo + hi) \div 2
      IN  forEach(passwords, mid + 1, hi, vopts, engine,
                  forEach(passwords, lo, mid, vopts, engine, acc))

\* !Array.isArray(passwords) || passwords.length === 0
batchEmpty(passwords) == passwords.t # "array" \/ Len(passwords.a) = 0

\* a variant that is off by one: passwords.length >= 100
batchTooLargeFrom100(passwords) == Len(passwords.a) >= 100

\* passwords.length > 100
batchTooLarge(passwords) == Len(passwords.a) > 100

batchHashHandler(body, engine) ==
    IF bodyThrows(body)
    THEN Outcome(catchBadRequest(bodyError(body)), Undef, NoOptions, <<>>)
    ELSE
      LET passwords == Get(body, "passwords")
          opts == Get(body, "options")
      IN  IF batchEmpty(passwords)
          THEN Outcome(Json(400, [error |-> Str("Passwords must be a non-empty array")]),
                       opts, NoOptions, <<>>)
          ELSE IF batchTooLarge(passwords)
          THEN Outcome(Json(400, [error |-> Str("Batch size limited to 100 passwords")]),
                       opts, NoOptions, <<>>)
          ELSE
            LET vopts == validateHashOptions(opts)
                t1 == <<Event("validateHashOptions", 0, <<opts>>, Return(Undef))>>
                results == forEach(passwords.a, 1, Len(passwords.a), vopts, engine,
                                   [c |-> "return", v |-> Undef, hashes |-> <<>>,
                                    errors |-> <<>>, trace |-> t1])
            IN  IF results.c = "return"
                THEN Outcome(Json(200, [hashes |-> results.hashes, errors |-> results.errors]),
                             opts, vopts, results.trace)
                ELSE Outcome(catchBadRequest(results.v), opts, vopts, results.trace)

(***************************************************************************)
(* GET /config                                                             *)
(***************************************************************************)
configHandler ==
    Json(200,
         [defaultOptions |-> DEFAULT_OPTIONS,
          limits |-> [time_cost |-> [min |-> 1, max |-> 10],
                      memory_cost |-> [min |-> 8192, max |-> 1048576,
                                       note |-> "Must be a power of 2"],
                      parallelism |-> [min |-> 1, max |-> 16],
                      salt_length |-> [min |-> 8, max |-> 32],
                      batch_size |-> [max |-> 100]]])

(***************************************************************************)
(* Inputs of the validator.                                                *)
(***************************************************************************)
NonNumbers == {Undef, Null, Str("3"), Frac(2)}

FieldInputs(f) ==
    NonNumbers \cup
    CASE f = "time_cost" -> {Num(n) : n \in {-1, 0, 1, 2, 10, 11}}
      [] f = "memory_cost" ->
            {Num(n) : n \in {0, 4096, 8191, 8192, 12288, 16384, 19456,
                             1048575, 1048576, 1048577, 2097152}}
      [] f = "parallelism" -> {Num(n) : n \in {0, 1, 2, 16, 17}}
      [] f = "salt_length" -> {Num(n) : n \in {7, 8, 16, 32, 33}}

NonObjectOptions ==
    {Undef, Null, Num(0), Num(5), Frac(1), Str(""), Str("fast"), Bool(FALSE), Bool(TRUE)}

ObjectOptions ==
    {Arr(<<>>)} \cup
    {Obj([time_cost |-> a, memory_cost |-> b, parallelism |-> c, salt_length |-> d]) :
        a \in FieldInputs("time_cost"), b \in FieldInputs("memory_cost"),
        c \in FieldInputs("parallelism"), d \in FieldInputs("salt_length")}

OptionInputs == NonObjectOptions \cup ObjectOptions

(***************************************************************************)
(* The validator on its own: every options input, validated once.          *)
(***************************************************************************)
InitValidate ==
    /\ DEFAULT_OPTIONS = DefaultOptionsLiteral
    /\ request = NoRequest
    /\ response = NoResponse
    /\ trace = <<>>
    /\ options \in OptionInputs
    /\ validatedOptions = NoOptions

Validate ==
    /\ validatedOptions = NoOptions
    /\ validatedOptions' = validateHashOptions(options)
    /\ UNCHANGED <<DEFAULT_OPTIONS, request, options, response, trace>>

SpecValidate == InitValidate /\ [][Validate]_vars

(***************************************************************************)
(* Inputs of the handlers.                                                 *)
(***************************************************************************)
PasswordInputs == {Undef, Null, Str(""), Str("a"), Str("b"), Num(0), Num(5)}

HandlerOptions ==
    {Undef, Str("fast"),
     Obj([time_cost |-> Num(3)]),
     Obj([time_cost |-> Num(3), memory_cost |-> Num(16384), parallelism |-> Num(2)]),
     Obj([time_cost |-> Num(11), memory_cost |-> Num(12288), salt_length |-> Num(32)])}

HashBodies ==
    {Unparsable, Null, Num(5)} \cup
    {Obj([password |-> p, options |-> o]) : p \in PasswordInputs, o \in HandlerOptions}

HashInputs == {Undef, Str(""), Num(7), Str("$argon2id$v=19$m=19456,t=2,p=1$c2FsdA$ZGlnZXN0"),
               Str("not-a-hash")}

VerifyBodies ==
    {Unparsable, Null, Num(5)} \cup
    {Obj([hash |-> h, password |-> p]) : h \in HashInputs, p \in PasswordInputs}

Items == {Str(""), Str("a"), Str("b"), Num(5)}

ShortArrays == UNION {[1..n -> Items] : n \in 0..MaxLen}

LongArray(n, j, x) == [i \in 1..n |-> IF i = j THEN x ELSE Str("a")]

LongArrays == {LongArray(n, j, x) : n \in {99, 100, 101}, j \in {1, 50, 100}, x \in Items}

BatchOptions ==
    {Undef,
     Obj([time_cost |-> Num(3), memory_cost |-> Num(16384), parallelism |-> Num(2)]),
     Obj([time_cost |-> Num(11), memory_cost |-> Num(12288), salt_length |-> Num(32)])}

BatchBodies ==
    {Unparsable, Null} \cup
    {Obj([passwords |-> ps, options |-> o]) :
        ps \in {Undef, Str("abc"), Obj([length |-> Num(2)])}
               \cup {Arr(s) : s \in ShortArrays \cup LongArrays},
        o \in BatchOptions}

Requests ==
    {[route |-> "/hash", body |-> b] : b \in HashBodies} \cup
    {[route |-> "/verify", body |-> b] : b \in VerifyBodies} \cup
    {[route |-> "/batch-hash", body |-> b] : b \in BatchBodies} \cup
    {[route |-> "/config", body |-> Undef]}

\* what the engine may throw
Thrown == {Error("memory allocation failed"), Error(""), Str("engine failure"), Undef, Null}

HashBehaviours == {Return(Undef)} \cup {Throw(e) : e \in Thrown}

VerifyBehaviours == {Return(Bool(TRUE)), Return(Bool(FALSE))} \cup {Throw(e) : e \in Thrown}

BatchBehaviours == {Return(Undef), Throw(Error("memory allocation failed")), Throw(Undef)}

\* one call that behaves as b, every other call returning
OneCall(n, k, b) == [i \in 1..n |-> IF i = k THEN b ELSE Return(Undef)]

\* the engine's behaviour on each item of a batch of n passwords
BatchEngines(n) ==
    IF n <= MaxLen
    THEN [1..n -> BatchBehaviours] \cup
         {OneCall(n, k, Throw(e)) : k \in 1..n, e \in Thrown}
    ELSE {OneCall(n, k, b) : k \in {1, 50, n}, b \in HashBehaviours}

BatchSize(body) ==
    IF Get(body, "passwords").t = "array" THEN Len(Get(body, "passwords").a) ELSE 0

(***************************************************************************)
(* The service: a request arrives, its handler runs, the response leaves.  *)
(***************************************************************************)
Init ==
    /\ DEFAULT_OPTIONS = DefaultOptionsLiteral
    /\ request = NoRequest
    /\ options = Undef
    /\ validatedOptions = NoOptions
    /\ response = NoResponse
    /\ trace = <<>>

Receive ==
    /\ request = NoRequest
    /\ request' \in Requests
    /\ UNCHANGED <<DEFAULT_OPTIONS, options, validatedOptions, response, trace>>

Respond(out) ==
    /\ response' = out.response
    /\ options' = out.options
    /\ validatedOptions' = out.validatedOptions
    /\ trace' = out.trace
    /\ UNCHANGED <<DEFAULT_OPTIONS, request>>

PostHash ==
    /\ request.route = "/hash"
    /\ response = NoResponse
    /\ \E behaviour \in HashBehaviours : Respond(hashHandler(request.body, behaviour))

PostVerify ==
    /\ request.route = "/verify"
    /\ response = NoResponse
    /\ \E behaviour \in VerifyBehaviours : Respond(verifyHandler(request.body, behaviour))

PostBatchHash ==
    /\ request.route = "/batch-hash"
    /\ response = NoResponse
    /\ \E engine \in BatchEngines(BatchSize(request.body)) :
          Respond(batchHashHandler(request.body, engine))

GetConfig ==
    /\ request.route = "/config"
    /\ response = NoResponse
    /\ response' = configHandler
    /\ UNCHANGED <<DEFAULT_OPTIONS, request, options, validatedOptions, trace>>

Reply ==
    /\ response # NoResponse
    /\ request' = NoRequest
    /\ options' = Undef
    /\ validatedOptions' = NoOptions
    /\ response' = NoResponse
    /\ trace' = <<>>
    /\ UNCHANGED DEFAULT_OPTIONS

Next == Receive \/ PostHash \/ PostVerify \/ PostBatchHash \/ GetConfig \/ Reply

Spec == Init /\ [][Next]_vars

(***************************************************************************)
(* Properties.                                                             *)
(***************************************************************************)
IsPowerOfTwo(n) == \E k \in 0..21 : n = 2^k

Handled == response # NoResponse

Validated == validatedOptions # NoOptions

\* the bound each field is documented to have
DocumentedBound(f) ==
    CASE f = "time_cost" -> 1..10
      [] f = "memory_cost" -> 8192..1048576
      [] f = "parallelism" -> 1..16
      [] f = "salt_length" -> 8..32

\* a supplied value the documentation lets through
DocumentedValid(f, x) ==
    /\ x.t = "int"
    /\ x.n \in DocumentedBound(f)
    /\ f = "memory_cost" => IsPowerOfTwo(x.n)

DocumentedDefaults ==
    [time_cost |-> 2, memory_cost |-> 19456, parallelism |-> 1, salt_length |-> 16]

\* C1: whatever the options input, the validated options have every field
\* within its closed bound and memory_cost a power of two.
C1_ValidatedWithinBounds ==
    Validated =>
        /\ \A f \in Fields : validatedOptions[f] \in DocumentedBound(f)
        /\ IsPowerOfTwo(validatedOptions.memory_cost)

\* C2: field by field, the validated value equals the supplied value exactly
\* when the supplied value is an integer within the bound (a power of two for
\* memory_cost), and otherwise equals the default; an absent or non-object
\* input yields exactly the defaults.
C2_FieldwiseOverride ==
    Validated =>
        IF options.t \notin {"object", "array"}
        THEN validatedOptions = DocumentedDefaults
        ELSE \A f \in Fields :
                LET x == Get(options, f)
                IN  /\ (x.t = "int" /\ validatedOptions[f] = x.n) <=> DocumentedValid(f, x)
                    /\ ~DocumentedValid(f, x) => validatedOptions[f] = DocumentedDefaults[f]

(***************************************************************************)
(* What a handled request looks like from outside.                         *)
(***************************************************************************)
NonEmptyString(x) == x.t = "string" /\ x.s # ""

BodyParsed == ~(request.body.t \in {"unparsable", "null"})

HasError == "error" \in DOMAIN response.body

\* positions of the log where the engine was invoked
EngineCalls == {k \in DOMAIN trace : trace[k].ev \in {"hash", "verify"}}

OptionCalls == {k \in DOMAIN trace : trace[k].ev = "validateHashOptions"}

IsBatch == request.route = "/batch-hash" /\ Handled

Passwords == Get(request.body, "passwords")

BatchN == BatchSize(request.body)

\* a batch whose passwords array has between 1 and 100 entries
BatchInRange == IsBatch /\ BatchN \in 1..100

\* a batch answered with a BatchResult
BatchResult == BatchInRange /\ response.status = 200

ErrorIndices == {response.body.errors[k].index : k \in DOMAIN response.body.errors}

EngineFailedOn(i) ==
    \E k \in EngineCalls : trace[k].index = i /\ trace[k].result.c = "throw"

\* C3: a batch of 1..100 passwords is answered 200 with
\* hashes.length + errors.length = N, whichever items fail and whatever the
\* engine throws.
C3_BatchNeverFails ==
    BatchInRange =>
        /\ response.status = 200
        /\ Len(response.body.hashes) + Len(response.body.errors) = BatchN

\* C4: in a batch result, errors holds a record for index i exactly when
\* password i is empty or not a string or the engine failed on it, one record
\* per index at most, and every other item contributes one hash.
C4_ErrorsPerIndex ==
    BatchResult =>
        /\ ErrorIndices = {i \in 0..(BatchN - 1) :
                              \/ ~NonEmptyString(Passwords.a[i + 1])
                              \/ EngineFailedOn(i)}
        /\ Len(response.body.errors) = Cardinality(ErrorIndices)
        /\ Len(response.body.hashes) = BatchN - Cardinality(ErrorIndices)

C4_Witness ==
    /\ BatchResult
    /\ BatchN = 3
    /\ Passwords.a = <<Str("a"), Str(""), Str("b")>>
    /\ Len(response.body.errors) = 1
    /\ response.body.errors[1].index = 1
    /\ Len(response.body.hashes) = 2

\* C5: a batch whose passwords value is missing, not an array, empty or
\* longer than 100 is answered 400 with an error and never reaches the
\* engine; a batch of exactly 100 is accepted and its items are processed.
C5_BatchSizeGate ==
    IsBatch =>
        /\ (~BodyParsed \/ Passwords.t # "array" \/ BatchN = 0 \/ BatchN > 100) =>
              /\ response.status = 400
              /\ HasError
              /\ EngineCalls = {}
        /\ BatchN = 100 =>
              /\ OptionCalls # {}
              /\ \E k \in DOMAIN trace : trace[k].ev = "validatePassword" /\ trace[k].index = 0
              /\ response.status = 200 =>
                    Len(response.body.hashes) + Len(response.body.errors) = 100

C5_Witness ==
    /\ IsBatch
    /\ BatchN = 101
    /\ response.status = 400
    /\ response.body.error = Str("Batch size limited to 100 passwords")

IsVerify == request.route = "/verify" /\ Handled

VerifyArgumentsValid ==
    /\ BodyParsed
    /\ NonEmptyString(Get(request.body, "hash"))
    /\ NonEmptyString(Get(request.body, "password"))

\* what /verify does around the engine call, whatever the call's outcome
VerifyGate ==
    /\ (EngineCalls # {}) <=> VerifyArgumentsValid
    /\ Cardinality(EngineCalls) <= 1
    /\ ~VerifyArgumentsValid => response.status = 400 /\ HasError
    /\ (BodyParsed /\ ~NonEmptyString(Get(request.body, "hash"))) =>
          response.body.error = Str("Hash must be a non-empty string")

\* C6 as stated: verify is invoked exactly when hash and password are
\* non-empty strings, and then the response is 200 with the engine's boolean;
\* otherwise the response is 400 and the engine is not invoked.
C6_VerifyInvokedThenOk ==
    IsVerify =>
        /\ VerifyGate
        /\ \A k \in EngineCalls :
              /\ response.status = 200
              /\ trace[k].result.c = "return"
              /\ response.body.isValid = trace[k].result.v

\* C6 as amended: verify is invoked exactly when hash and password are
\* non-empty strings; when it returns, the response is 200 with its boolean,
\* and when it throws, the response is an error: 400, or 500 when the thrown
\* value is null or undefined.
C6_VerifyInvokedThenOkOrError ==
    IsVerify =>
        /\ VerifyGate
        /\ \A k \in EngineCalls :
              IF trace[k].result.c = "return"
              THEN response.status = 200 /\ response.body.isValid = trace[k].result.v
              ELSE /\ HasError
                   /\ response.status =
                         IF trace[k].result.v.t \in {"null", "undefined"} THEN 500 ELSE 400

C6_Witness ==
    /\ IsVerify
    /\ VerifyArgumentsValid
    /\ \E k \in EngineCalls : trace[k].result = Throw(Error("memory allocation failed"))
    /\ response.status = 400
    /\ response.body.error = Str("memory allocation failed")

IsHash == request.route = "/hash" /\ Handled

HashPasswordValid == BodyParsed /\ NonEmptyString(Get(request.body, "password"))

\* C7: /hash validates the password, then the options, then invokes the
\* engine at most once, only for a valid password and only with the validated
\* options; it answers 200 with the engine's hash exactly when the password is
\* valid and the engine succeeds, and 400 with an error otherwise, never 500.
C7_HashOkOrBadRequest ==
    IsHash =>
        /\ Cardinality(EngineCalls) <= 1
        /\ (EngineCalls # {}) <=> HashPasswordValid
        /\ \A k \in EngineCalls :
              /\ k = 3
              /\ trace[1].ev = "validatePassword"
              /\ trace[2].ev = "validateHashOptions"
              /\ trace[k].args[2] = validateHashOptions(Get(request.body, "options"))
              /\ (response.status = 200) <=> trace[k].result.c = "return"
              /\ response.status = 200 => response.body.hash = trace[k].result.v
        /\ response.status = 200 => EngineCalls # {}
        /\ response.status # 200 => response.status = 400 /\ HasError

\* integers the agreement between /config and the validator is probed on
ProbeIntegers ==
    (-1..40) \cup {2^k : k \in 0..21} \cup {2^k - 1 : k \in 12..21} \cup {2^k + 1 : k \in 12..21}
    \cup {12288, 19456, 1000000}

\* the batch was let through the size checks
BatchAccepted == IsBatch /\ OptionCalls # {}

\* C8: whatever was served before, what /config reports is the compiled-in
\* defaults and limits, and they agree with the validator and with the batch
\* size check: an integer is accepted for a field exactly when it lies within
\* the reported min..max (and is a power of two for memory_cost), batch_size
\* max is the largest batch accepted, and defaultOptions is what the validator
\* yields for absent options.
C8_ConfigAgreesWithValidator ==
    LET config == configHandler.body
    IN  /\ config.defaultOptions = validateHashOptions(Undef)
        /\ config.defaultOptions = DocumentedDefaults
        /\ \A f \in Fields : \A n \in ProbeIntegers :
              FieldAccepted(f, Num(n)) <=>
                 /\ n >= config.limits[f].min
                 /\ n <= config.limits[f].max
                 /\ f = "memory_cost" => IsPowerOfTwo(n)
        /\ (IsBatch /\ Passwords.t = "array" /\ BatchN > 0) =>
              (BatchAccepted <=> BatchN <= config.limits.batch_size.max)
        /\ (request.route = "/config" /\ Handled) =>
              response = Json(200, config)

C8_Witness ==
    /\ request.route = "/config"
    /\ Handled
    /\ response.status = 200
    /\ response.body.limits.batch_size.max = 100
    /\ response.body.defaultOptions.memory_cost = 19456

\* C9: a batch that passes the size checks evaluates validateHashOptions once,
\* before any item, and every engine invocation of the batch receives that
\* value; a batch that fails them never evaluates it.
C9_OneOptionsValuePerBatch ==
    IsBatch =>
        IF BatchInRange
        THEN /\ OptionCalls = {1}
             /\ trace[1].args = <<Get(request.body, "options")>>
             /\ validatedOptions = validateHashOptions(Get(request.body, "options"))
             /\ \A k \in EngineCalls : trace[k].args[2] = validatedOptions
        ELSE OptionCalls = {} /\ EngineCalls = {}

C9_Witness ==
    /\ BatchInRange
    /\ validatedOptions.time_cost = 3
    /\ validatedOptions.memory_cost = 16384
    /\ Cardinality(EngineCalls) >= 2
    /\ \E k \in EngineCalls : trace[k].result.c = "throw" /\ k < Len(trace)

\* the indices of the batch that have no error record, in ascending order
OkIndices ==
    LET errorIndices == ErrorIndices
        Ok(i) == i \notin errorIndices
    IN  SelectSeq([i \in 1..BatchN |-> i - 1], Ok)

ItemSteps == {k \in DOMAIN trace : trace[k].ev = "validatePassword"}

\* C10: a batch result comes from processing the items in ascending index
\* order: error records have strictly increasing index and the k-th hash is
\* the hash of the password at the k-th smallest index without an error.
C10_HashesCorrelateByExclusion ==
    BatchResult =>
        /\ \A k, l \in ItemSteps : k < l => trace[k].index < trace[l].index
        /\ {trace[k].index : k \in ItemSteps} = 0..(BatchN - 1)
        /\ \A k, l \in DOMAIN response.body.errors :
              k < l => response.body.errors[k].index < response.body.errors[l].index
        /\ LET ok == OkIndices
           IN  response.body.hashes =
                  [k \in 1..Len(ok) |-> HashString(Passwords.a[ok[k] + 1], validatedOptions)]

C10_Witness ==
    /\ BatchResult
    /\ Passwords.a = <<Str("b"), Num(5), Str("a")>>
    /\ ErrorIndices = {1}
    /\ Len(response.body.hashes) = 2
    /\ response.body.hashes[1].o.password = "b"
    /\ response.body.hashes[2].o.password = "a"

====
